---- MODULE Spec2Model ----
(***************************************************************************)
(* Model of src/wallet_cr_limit_app.py: the rule-based credit limit        *)
(* function set_credit_limit and the Streamlit button that calls it.       *)
(*                                                                         *)
(* Python values are records [type, num, str]: type is the Python type     *)
(* name, num the numeric value in fixed point (Unit per 1.0), str the      *)
(* string as a sequence of one-character strings.  Credit limits are kept  *)
(* in a finer fixed point (Fine per 1.0) so that factor * median, with the *)
(* two-decimal factors of the rule table, is exact.                        *)
(***************************************************************************)
EXTENDS Integers, Sequences, FiniteSets

VARIABLES args, pc, outcome

vars == <<args, pc, outcome>>

\* ------------------------------------------------------------------ bounds

\* lengths on platform 0..MaxLength months are drawn
MaxLength == 6
\* average transaction counts 0..MaxNtxns are drawn
MaxNtxns == 2

\* ------------------------------------------------------------- fixed point

\* fixed-point units per 1.0 of an input (the number inputs step by 0.1)
Unit == 10

\* fixed-point units per 1.0 of a credit limit: factors have two decimals
Fine == 100 * Unit

\* ------------------------------------------------------------ Python values

PyInt(n) == [type |-> "int", num |-> n * Unit, str |-> <<>>]

\* a float given in tenths
PyFloat(tenths) == [type |-> "float", num |-> tenths, str |-> <<>>]

\* bool is a subclass of int: True is 1, False is 0
PyBool(b) == [type |-> "bool", num |-> IF b THEN Unit ELSE 0, str |-> <<>>]

PyStr(s) == [type |-> "str", num |-> 0, str |-> s]

PyNone == [type |-> "NoneType", num |-> 0, str |-> <<>>]

\* isinstance(v, (int, float)); bool passes because bool subclasses int
IsNumeric(v) == v.type \in {"int", "float", "bool"}

\* isinstance(v, str)
IsStr(v) == v.type = "str"

UpperCase == <<"A", "B", "C", "D", "E", "F", "G", "H", "I", "J", "K", "L", "M",
               "N", "O", "P", "Q", "R", "S", "T", "U", "V", "W", "X", "Y", "Z">>

LowerCase == <<"a", "b", "c", "d", "e", "f", "g", "h", "i", "j", "k", "l", "m",
               "n", "o", "p", "q", "r", "s", "t", "u", "v", "w", "x", "y", "z">>

\* the lower-case letter of each upper-case letter
ToLower ==
    [c \in {UpperCase[k] : k \in DOMAIN UpperCase} |->
        LowerCase[CHOOSE k \in DOMAIN UpperCase : UpperCase[k] = c]]

\* the upper-case letter of each lower-case letter
ToUpper ==
    [c \in {LowerCase[k] : k \in DOMAIN LowerCase} |->
        UpperCase[CHOOSE k \in DOMAIN LowerCase : LowerCase[k] = c]]

\* str.lower(): every upper-case letter to its lower-case letter
lower(s) ==
    [i \in DOMAIN s |-> IF s[i] \in DOMAIN ToLower THEN ToLower[s[i]] ELSE s[i]]

\* str.upper(): every lower-case letter to its upper-case letter
upper(s) ==
    [i \in DOMAIN s |-> IF s[i] \in DOMAIN ToUpper THEN ToUpper[s[i]] ELSE s[i]]

\* ------------------------------------------------------- string literals

s_defaulter == <<"d", "e", "f", "a", "u", "l", "t", "e", "r">>
s_lowest == <<"l", "o", "w", "e", "s", "t">>
s_low == <<"l", "o", "w">>
s_moderate == <<"m", "o", "d", "e", "r", "a", "t", "e">>
s_high == <<"h", "i", "g", "h">>
s_highest == <<"h", "i", "g", "h", "e", "s", "t">>
s_neg == <<"n", "e", "g">>
s_pos == <<"p", "o", "s">>
s_ind == <<"i", "n", "d">>
S_IND == <<"I", "N", "D">>
S_BUS == <<"B", "U", "S">>
S_INDIVIDUAL == <<"I", "N", "D", "I", "V", "I", "D", "U", "A", "L">>
S_SOLE_PROPRIETOR ==
    <<"S", "O", "L", "E", "_", "P", "R", "O", "P", "R", "I", "E", "T", "O", "R">>
S_UNREGISTERED ==
    <<"U", "N", "R", "E", "G", "I", "S", "T", "E", "R", "E", "D">>
S_LIMITED_COMPANY ==
    <<"L", "I", "M", "I", "T", "E", "D", "_", "C", "O", "M", "P", "A", "N", "Y">>
S_PARTNERSHIP == <<"P", "A", "R", "T", "N", "E", "R", "S", "H", "I", "P">>

QualityLevels ==
    {s_defaulter, s_lowest, s_low, s_moderate, s_high, s_highest}

ListingValues == {s_neg, s_pos}

BusinessTypes ==
    {S_INDIVIDUAL, S_SOLE_PROPRIETOR, S_UNREGISTERED, S_LIMITED_COMPANY,
     S_PARTNERSHIP}

\* ---------------------------------------------------------------- messages

MsgNtxns == "Average number of transactions per month must be numeric."
MsgSum == "Average sum of credits per month must be numeric."
MsgMedian == "Median of the average credits per month must be numeric."
MsgLength == "Length on platform must be numeric."
MsgQualityStr == "CRB credit quality value must be a string."
MsgQualityEnum == "CRB credit quality value must be either 'Defaulter', 'Lowest', 'Low', 'Moderate', 'High' or 'Highest'."
MsgListingEnum == "CRB listing can only take the values 'Neg' or 'Pos'."
MsgListingAttr == "object has no attribute 'lower'"
MsgBusinessStr == "Business type value must be a string."
MsgBusinessEnum == "Business type value must be either 'INDIVIDUAL', 'SOLE_PROPRIETOR', 'UNREGISTERED', 'LIMITED_COMPANY', or 'PARTNERSHIP'."

ReasonNeg == "Customer has a negative CRB listing status."
ReasonNtxns == "Customer has < 2 average transactions per month."
ReasonSum == "Customer has an average sum of credit amount per month < 1k."
ReasonDefaulter == "Customer categorized as a defaulter in CRB credit quality."
ReasonDefault == "Eligibility criteria met. Limit based on transaction activity."
ReasonTenureLow == "Customer is <= 2 months old on the platform with low credit quality."
ReasonTenure == "Customer is <= 1 month old on the platform."
ReasonForcedZero == "Customer's average sum of credit value per month does not qualify a limit."
ReasonAcceptZero == "Customer eligible for credit. However, average sum of credit value per month does not qualify a limit."

\* ---------------------------------------------------------------- outcomes

Returned(decision, credit_limit, reason, leaf) ==
    [kind |-> "return", decision |-> decision, credit_limit |-> credit_limit,
     reason |-> reason, exc |-> "", leaf |-> leaf]

Raised(exc, msg) ==
    [kind |-> "raise", decision |-> "", credit_limit |-> 0,
     reason |-> msg, exc |-> exc, leaf |-> "validation"]

NoOutcome ==
    [kind |-> "none", decision |-> "", credit_limit |-> 0,
     reason |-> "", exc |-> "", leaf |-> ""]

\* ------------------------------------------------------ set_credit_limit

\* the validation checks, in the order the function makes them; the first
\* failing check raises, NoOutcome when all pass
Validate(a) ==
    IF ~IsNumeric(a.avg_ntxns_per_month)
        THEN Raised("ValueError", MsgNtxns)
    ELSE IF ~IsNumeric(a.avg_sum_credits_per_month)
        THEN Raised("ValueError", MsgSum)
    ELSE IF ~IsNumeric(a.median_avg_credits_per_month)
        THEN Raised("ValueError", MsgMedian)
    ELSE IF ~IsNumeric(a.length_on_platform)
        THEN Raised("ValueError", MsgLength)
    ELSE IF ~IsStr(a.crb_cr_quality)
        THEN Raised("ValueError", MsgQualityStr)
    ELSE IF lower(a.crb_cr_quality.str) \notin QualityLevels
        THEN Raised("ValueError", MsgQualityEnum)
    \* crb_listing.lower() is called with no isinstance check before it
    ELSE IF ~IsStr(a.crb_listing)
        THEN Raised("AttributeError", MsgListingAttr)
    ELSE IF lower(a.crb_listing.str) \notin ListingValues
        THEN Raised("ValueError", MsgListingEnum)
    ELSE IF ~IsStr(a.businesstype)
        THEN Raised("ValueError", MsgBusinessStr)
    ELSE IF upper(a.businesstype.str) \notin BusinessTypes
        THEN Raised("ValueError", MsgBusinessEnum)
    ELSE NoOutcome

\* customer category from the upper-cased business type
Category(businesstype) ==
    IF businesstype \in {S_INDIVIDUAL, S_SOLE_PROPRIETOR, S_UNREGISTERED}
    THEN S_IND
    ELSE S_BUS

\* gate 1 comparing the listing as given with 'Neg', without lower()
GateListing_exact(a) == a.crb_listing.str = <<"N", "e", "g">>

\* gate 1: negative CRB listing
GateListing(a) == lower(a.crb_listing.str) = s_neg

\* gate 2: one transaction per month or less
GateNtxns(a) == a.avg_ntxns_per_month.num <= 1 * Unit

\* gate 3 with a threshold of 500, below the limit algorithm's 1000
GateSum_500(a) == a.avg_sum_credits_per_month.num < 500 * Unit

\* gate 3: average sum of credits per month under 1k
GateSum(a) == a.avg_sum_credits_per_month.num < 1000 * Unit

\* gate 4: CRB defaulter
GateDefaulter(a) == lower(a.crb_cr_quality.str) = s_defaulter

\* the gates with the CRB quality checked second, before the transaction
\* count and the sum
Gates_defaulter_second(a) ==
    IF GateListing(a)
        THEN Returned("Decline", 0, ReasonNeg, "gate_listing")
    ELSE IF GateDefaulter(a)
        THEN Returned("Decline", 0, ReasonDefaulter, "gate_defaulter")
    ELSE IF GateNtxns(a)
        THEN Returned("Decline", 0, ReasonNtxns, "gate_ntxns")
    ELSE IF GateSum(a)
        THEN Returned("Decline", 0, ReasonSum, "gate_sum")
    ELSE NoOutcome

\* the four early declines, first match returns; NoOutcome when none matches
Gates(a) ==
    IF GateListing(a)
        THEN Returned("Decline", 0, ReasonNeg, "gate_listing")
    ELSE IF GateNtxns(a)
        THEN Returned("Decline", 0, ReasonNtxns, "gate_ntxns")
    ELSE IF GateSum(a)
        THEN Returned("Decline", 0, ReasonSum, "gate_sum")
    ELSE IF GateDefaulter(a)
        THEN Returned("Decline", 0, ReasonDefaulter, "gate_defaulter")
    ELSE NoOutcome

\* min(a, b)
Min(x, y) == IF x <= y THEN x ELSE y

\* factor * median_avg_credits_per_month with the cap left out
Limit_uncapped(pct, median, cap) == pct * median.num

\* min(factor * median_avg_credits_per_month, cap), in Fine units; pct is the
\* factor in hundredths
Limit(pct, median, cap) == Min(pct * median.num, cap * Fine)

\* a sizing leaf that assigns credit_limit (and possibly reason) and falls
\* through to the end of the function
Sized(credit_limit, reason, leaf) ==
    [early |-> FALSE, credit_limit |-> credit_limit, reason |-> reason,
     leaf |-> leaf]

\* a sizing leaf that returns ('Decline', 0, reason) at once
Early(reason, leaf) ==
    [early |-> TRUE, credit_limit |-> 0, reason |-> reason, leaf |-> leaf]

\* the individual arm of the limit algorithm
SizeInd(quality, length, sum, median) ==
    IF quality \in {s_lowest, s_low} THEN
        IF length <= 2 * Unit
            THEN Early(ReasonTenureLow, "ind_low_new")
        ELSE IF 3 * Unit <= length /\ length <= 5 * Unit
            THEN Sized(Limit(20, median, 10000), ReasonDefault, "ind_low_3_5")
        ELSE Sized(Limit(30, median, 15000), ReasonDefault, "ind_low_6")
    ELSE IF quality \in {s_moderate, s_high, s_highest} THEN
        IF length <= 1 * Unit
            THEN Early(ReasonTenure, "ind_mod_new")
        ELSE IF 2 * Unit <= length /\ length <= 5 * Unit
            THEN Sized(Limit(30, median, 20000), ReasonDefault, "ind_mod_2_5")
        ELSE IF sum < 1000 * Unit
            THEN Sized(0, ReasonForcedZero, "ind_forced_zero")
        ELSE IF 1000 * Unit <= sum /\ sum <= 100000 * Unit
            THEN Sized(Limit(40, median, 25000), ReasonDefault, "ind_mod_6_mid")
        ELSE Sized(Limit(50, median, 30000), ReasonDefault, "ind_mod_6_high")
    ELSE Sized(0, ReasonDefault, "ind_none")

\* the business arm of the limit algorithm
SizeBus(quality, length, sum, median) ==
    IF quality \in {s_lowest, s_low} THEN
        IF length <= 2 * Unit
            THEN Early(ReasonTenureLow, "bus_low_new")
        ELSE IF 3 * Unit <= length /\ length <= 5 * Unit
            THEN Sized(Limit(45, median, 50000), ReasonDefault, "bus_low_3_5")
        ELSE Sized(Limit(55, median, 100000), ReasonDefault, "bus_low_6")
    ELSE IF quality \in {s_moderate, s_high, s_highest} THEN
        IF length <= 1 * Unit
            THEN Early(ReasonTenure, "bus_mod_new")
        ELSE IF 2 * Unit <= length /\ length <= 5 * Unit
            THEN Sized(Limit(60, median, 150000), ReasonDefault, "bus_mod_2_5")
        ELSE IF sum < 1000 * Unit
            THEN Sized(0, ReasonForcedZero, "bus_forced_zero")
        ELSE IF 1000 * Unit <= sum /\ sum <= 100000 * Unit
            THEN Sized(Limit(65, median, 200000), ReasonDefault, "bus_mod_6_mid")
        ELSE Sized(Limit(70, median, 350000), ReasonDefault, "bus_mod_6_high")
    ELSE Sized(0, ReasonDefault, "bus_none")

\* the limit algorithm: the arm is chosen by the category
Size(a) ==
    IF lower(Category(upper(a.businesstype.str))) = s_ind
    THEN SizeInd(lower(a.crb_cr_quality.str), a.length_on_platform.num,
                 a.avg_sum_credits_per_month.num, a.median_avg_credits_per_month)
    ELSE SizeBus(lower(a.crb_cr_quality.str), a.length_on_platform.num,
                 a.avg_sum_credits_per_month.num, a.median_avg_credits_per_month)

\* rounding with a tie going up
round_half_up(n, d) == (2 * n + d) \div (2 * d)

\* round(n / d, 0) for d > 0: the nearest integer, a tie to the even one
round(n, d) ==
    LET q == n \div d
        r == n % d
    IN  IF 2 * r < d THEN q
        ELSE IF 2 * r > d THEN q + 1
        ELSE IF q % 2 = 0 THEN q ELSE q + 1

\* round(credit_limit / 10, 0) * 10, in Fine units
RoundToTen(credit_limit) == round(credit_limit, 10 * Fine) * 10 * Fine

\* the end of the function: decision starts as 'Decline', becomes 'Accept'
\* on a positive unrounded limit; the zero-limit reason is set only when
\* decision is already 'Accept'
Finalize(credit_limit, reason, leaf) ==
    LET decision0 == "Decline"
        decision == IF credit_limit > 0 THEN "Accept" ELSE decision0
        reason1 == IF ~(credit_limit > 0)
                      /\ decision0 = "Accept" /\ credit_limit = 0
                   THEN ReasonAcceptZero
                   ELSE reason
    IN  Returned(decision, RoundToTen(credit_limit), reason1, leaf)

\* the function with the gates run before the validation checks
set_credit_limit_gates_first(a) ==
    LET g == Gates(a) IN
    IF g.kind = "return" THEN g
    ELSE LET v == Validate(a) IN
    IF v.kind = "raise" THEN v
    ELSE LET s == Size(a) IN
    IF s.early THEN Returned("Decline", 0, s.reason, s.leaf)
    ELSE Finalize(s.credit_limit, s.reason, s.leaf)

\* set_credit_limit(avg_ntxns_per_month, avg_sum_credits_per_month,
\*   median_avg_credits_per_month, businesstype, crb_cr_quality, crb_listing,
\*   length_on_platform)
set_credit_limit(a) ==
    LET v == Validate(a) IN
    IF v.kind = "raise" THEN v
    ELSE LET g == Gates(a) IN
    IF g.kind = "return" THEN g
    ELSE LET s == Size(a) IN
    IF s.early THEN Returned("Decline", 0, s.reason, s.leaf)
    ELSE Finalize(s.credit_limit, s.reason, s.leaf)

\* ------------------------------------------------------------ the inputs

\* the options of the select boxes
O_Defaulter == <<"D", "e", "f", "a", "u", "l", "t", "e", "r">>
O_Lowest == <<"L", "o", "w", "e", "s", "t">>
O_Low == <<"L", "o", "w">>
O_Moderate == <<"M", "o", "d", "e", "r", "a", "t", "e">>
O_High == <<"H", "i", "g", "h">>
O_Highest == <<"H", "i", "g", "h", "e", "s", "t">>
O_Pos == <<"P", "o", "s">>
O_Neg == <<"N", "e", "g">>

\* other spellings, and values outside the enumerations
V_NEG == <<"N", "E", "G">>
V_pos == <<"p", "o", "s">>
V_maybe == <<"m", "a", "y", "b", "e">>
V_low == <<"l", "o", "w">>
V_LOW == <<"L", "O", "W">>
V_HIGHEST == <<"H", "I", "G", "H", "E", "S", "T">>
V_defaulter == <<"d", "e", "f", "a", "u", "l", "t", "e", "r">>
V_medium == <<"M", "e", "d", "i", "u", "m">>
V_individual == <<"i", "n", "d", "i", "v", "i", "d", "u", "a", "l">>
V_Individual == <<"I", "n", "d", "i", "v", "i", "d", "u", "a", "l">>
V_limited_company == <<"l", "i", "m", "i", "t", "e", "d", "_", "c", "o", "m", "p", "a", "n", "y">>
V_Partnership == <<"P", "a", "r", "t", "n", "e", "r", "s", "h", "i", "p">>
V_bad_type == <<"b", "a", "d", "_", "t", "y", "p", "e">>

\* average transaction counts: 0..MaxNtxns and 1.5
NtxnsValues == {PyInt(n) : n \in 0..MaxNtxns} \cup {PyFloat(15)}

\* average sums of credits: 999.9, 1000, 100000, 100000.1
SumValues == {PyFloat(9999), PyInt(1000), PyInt(100000), PyFloat(1000001)}

\* medians: negative, zero, sized limits under 5, rounding ties (125, 135),
\* the scenarios' medians and one that reaches every cap
MedianValues ==
    {PyInt(n) : n \in {-1000, 0, 10, 25, 625, 675, 10000, 100000, 1000000}}
    \cup {PyBool(TRUE), PyNone}

\* lengths: 0..MaxLength months, 12 months, and 1.5, 2.5, 5.5 months
LengthValues ==
    {PyInt(n) : n \in 0..MaxLength} \cup {PyInt(12)}
    \cup {PyFloat(15), PyFloat(25), PyFloat(55)}

BusinessOptions ==
    {PyStr(S_INDIVIDUAL), PyStr(S_SOLE_PROPRIETOR), PyStr(S_UNREGISTERED),
     PyStr(S_LIMITED_COMPANY), PyStr(S_PARTNERSHIP)}

QualityOptions ==
    {PyStr(O_Defaulter), PyStr(O_Lowest), PyStr(O_Low), PyStr(O_Moderate),
     PyStr(O_High), PyStr(O_Highest)}

ListingOptions == {PyStr(O_Pos), PyStr(O_Neg)}

\* the arguments of a call made with values of every numeric kind and the
\* select boxes' options
Profiles ==
    [avg_ntxns_per_month : NtxnsValues,
     avg_sum_credits_per_month : SumValues,
     median_avg_credits_per_month : MedianValues,
     businesstype : BusinessOptions,
     crb_cr_quality : QualityOptions,
     crb_listing : ListingOptions,
     length_on_platform : LengthValues]

\* values of the wrong type and of the right type, for each numeric field
LooseNtxns == {PyInt(0), PyInt(MaxNtxns), PyBool(TRUE), PyStr(V_maybe)}
LooseSum == {PyInt(500), PyInt(5000), PyBool(TRUE), PyNone}
LooseMedian == {PyInt(10000), PyBool(TRUE), PyNone}
LooseLength == {PyInt(1), PyInt(4), PyBool(FALSE), PyNone}

\* spellings of the enumerated fields, values outside them, and non-strings
LooseBusiness ==
    {PyStr(S_INDIVIDUAL), PyStr(V_individual), PyStr(V_Individual),
     PyStr(S_LIMITED_COMPANY), PyStr(V_limited_company), PyStr(V_Partnership),
     PyStr(V_bad_type), PyInt(5)}
LooseQuality ==
    {PyStr(O_Defaulter), PyStr(V_defaulter), PyStr(O_Low), PyStr(V_low),
     PyStr(V_LOW), PyStr(O_Moderate), PyStr(O_Highest), PyStr(V_HIGHEST),
     PyStr(V_medium), PyNone}
LooseListing ==
    {PyStr(O_Pos), PyStr(V_pos), PyStr(O_Neg), PyStr(V_NEG), PyStr(V_maybe),
     PyInt(5)}

\* the arguments of a direct call of the function, unchecked by any form
LooseProfiles ==
    [avg_ntxns_per_month : LooseNtxns,
     avg_sum_credits_per_month : LooseSum,
     median_avg_credits_per_month : LooseMedian,
     businesstype : LooseBusiness,
     crb_cr_quality : LooseQuality,
     crb_listing : LooseListing,
     length_on_platform : LooseLength]

\* ------------------------------------------------------- the state machine

\* args: the seven arguments of the call; pc: "ready" before the call,
\* "written" once the three results are written, "raised" once the call
\* has raised; outcome: what the call returned or raised
TypeOK ==
    /\ pc \in {"ready", "written", "raised"}
    /\ outcome.kind \in {"none", "return", "raise"}

Init ==
    /\ args \in Profiles
    /\ pc = "ready"
    /\ outcome = NoOutcome

InitLoose ==
    /\ args \in LooseProfiles
    /\ pc = "ready"
    /\ outcome = NoOutcome

\* the button is pressed, set_credit_limit returns and the decision, the
\* limit and the reason are written
Return ==
    /\ pc = "ready"
    /\ set_credit_limit(args).kind = "return"
    /\ outcome' = set_credit_limit(args)
    /\ pc' = "written"
    /\ UNCHANGED args

\* the button is pressed and set_credit_limit raises
Raise ==
    /\ pc = "ready"
    /\ set_credit_limit(args).kind = "raise"
    /\ outcome' = set_credit_limit(args)
    /\ pc' = "raised"
    /\ UNCHANGED args

Next == Return \/ Raise

\* calls made through the form's kinds of values
Spec == Init /\ [][Next]_vars

\* direct calls with arguments of any type and spelling
SpecLoose == InitLoose /\ [][Next]_vars

\* -------------------------------------------------- the claims' vocabulary

\* the call has returned a result (validation passed)
HasResult == pc = "written"

\* the conditions of the four gates, as the rule set states them
MatchesGate1 == lower(args.crb_listing.str) = s_neg
MatchesGate2 == args.avg_ntxns_per_month.num <= 1 * Unit
MatchesGate3 == args.avg_sum_credits_per_month.num < 1000 * Unit
MatchesGate4 == lower(args.crb_cr_quality.str) = s_defaulter

MatchesNoGate ==
    ~MatchesGate1 /\ ~MatchesGate2 /\ ~MatchesGate3 /\ ~MatchesGate4

\* the leaves of the limit algorithm that assign a limit
SizingLeaves ==
    {"ind_low_3_5", "ind_low_6", "ind_mod_2_5", "ind_mod_6_mid",
     "ind_mod_6_high", "bus_low_3_5", "bus_low_6", "bus_mod_2_5",
     "bus_mod_6_mid", "bus_mod_6_high"}

Abs(x) == IF x < 0 THEN -x ELSE x

\* ---------------------------------------------------------------------- C1

\* C1: every returned result has decision 'Accept' exactly when the
\* returned (rounded) credit_limit is greater than 0.
C1_AcceptIffPositiveLimit ==
    HasResult => (outcome.decision = "Accept" <=> outcome.credit_limit > 0)

\* ---------------------------------------------------------------------- C2

\* C2: every returned credit_limit is a non-negative multiple of 10,
\* whichever return path produced it.
C2_NonNegativeMultipleOfTen ==
    HasResult =>
        /\ outcome.credit_limit >= 0
        /\ outcome.credit_limit % (10 * Fine) = 0

\* ---------------------------------------------------------------------- C3

\* the reason of the lowest-numbered matching gate
C3_FirstGateReason ==
    IF MatchesGate1 THEN ReasonNeg
    ELSE IF MatchesGate2 THEN ReasonNtxns
    ELSE IF MatchesGate3 THEN ReasonSum
    ELSE ReasonDefaulter

\* C3: a valid profile that matches one or more gates gets
\* ('Decline', 0, reason of the lowest-numbered matching gate), returned by
\* that gate and not by a later gate or the limit algorithm.
C3_GateOrder ==
    (HasResult /\ ~MatchesNoGate) =>
        /\ outcome.decision = "Decline"
        /\ outcome.credit_limit = 0
        /\ outcome.reason = C3_FirstGateReason
        /\ outcome.leaf \in
             {"gate_listing", "gate_ntxns", "gate_sum", "gate_defaulter"}

\* a profile that matches gates 2, 3 and 4 but not gate 1 reports gate 2
C3_Witness ==
    /\ HasResult
    /\ ~MatchesGate1 /\ MatchesGate2 /\ MatchesGate3 /\ MatchesGate4
    /\ outcome.reason = ReasonNtxns

\* ---------------------------------------------------------------------- C4

C4_Category ==
    IF upper(args.businesstype.str)
         \in {S_INDIVIDUAL, S_SOLE_PROPRIETOR, S_UNREGISTERED}
    THEN "IND" ELSE "BUS"

C4_QualityBand ==
    IF lower(args.crb_cr_quality.str) \in {s_lowest, s_low}
    THEN "low" ELSE "mod"

\* the length band; "none" for a length in none of the table's bands (a
\* fractional length between two bands)
C4_LengthBand ==
    LET n == args.length_on_platform.num
        newest == IF C4_QualityBand = "low" THEN 2 ELSE 1
    IN  IF n <= newest * Unit THEN "decline"
        ELSE IF (newest + 1) * Unit <= n /\ n <= 5 * Unit THEN "mid"
        ELSE IF n >= 6 * Unit THEN "long"
        ELSE "none"

C4_SumBand ==
    IF args.avg_sum_credits_per_month.num <= 100000 * Unit THEN "le" ELSE "gt"

\* the table: category, quality band, length band, sum band, factor (in
\* hundredths), cap
C4_Table ==
    {<<"IND", "low", "mid", "any", 20, 10000>>,
     <<"IND", "low", "long", "any", 30, 15000>>,
     <<"IND", "mod", "mid", "any", 30, 20000>>,
     <<"IND", "mod", "long", "le", 40, 25000>>,
     <<"IND", "mod", "long", "gt", 50, 30000>>,
     <<"BUS", "low", "mid", "any", 45, 50000>>,
     <<"BUS", "low", "long", "any", 55, 100000>>,
     <<"BUS", "mod", "mid", "any", 60, 150000>>,
     <<"BUS", "mod", "long", "le", 65, 200000>>,
     <<"BUS", "mod", "long", "gt", 70, 350000>>}

C4_Row ==
    CHOOSE r \in C4_Table :
        /\ r[1] = C4_Category
        /\ r[2] = C4_QualityBand
        /\ r[3] = C4_LengthBand
        /\ r[4] \in {"any", C4_SumBand}

\* min(factor * median, cap) of the profile's row, in Fine units
C4_Sized ==
    LET x == C4_Row[5] * args.median_avg_credits_per_month.num
        cap == C4_Row[6] * Fine
    IN  IF x <= cap THEN x ELSE cap

C5_QualityUnrecognized ==
    \/ args.crb_cr_quality.type # "str"
    \/ lower(args.crb_cr_quality.str) \notin
         {s_defaulter, s_lowest, s_low, s_moderate, s_high, s_highest}

\* C5: with an unrecognized crb_cr_quality the call raises the validation
\* error (ValueError) and returns no decision, whatever the other fields
\* are, also when they would trigger an early decline.
C5_ValidationPrecedesGating ==
    (pc # "ready" /\ C5_QualityUnrecognized) =>
        /\ pc = "raised"
        /\ outcome.kind = "raise"
        /\ outcome.exc = "ValueError"
        /\ outcome.decision = ""

\* an unrecognized quality on a profile that matches gates 1, 2 and 3
C5_Witness ==
    /\ pc = "raised"
    /\ args.crb_cr_quality = PyStr(V_medium)
    /\ IsNumeric(args.avg_ntxns_per_month)
    /\ IsNumeric(args.avg_sum_credits_per_month)
    /\ MatchesGate1 /\ MatchesGate2 /\ MatchesGate3
    /\ outcome.exc = "ValueError"
    /\ outcome.reason = MsgQualityEnum

\* ---------------------------------------------------------------------- C6

\* a numeric field holds a value that is not an integer or a real (a
\* boolean included)
C6_NotANumber(v) == v.type \notin {"int", "float"}

\* some field is of the wrong type or outside its enumeration
C6_SomeFieldInvalid ==
    \/ C6_NotANumber(args.avg_ntxns_per_month)
    \/ C6_NotANumber(args.avg_sum_credits_per_month)
    \/ C6_NotANumber(args.median_avg_credits_per_month)
    \/ C6_NotANumber(args.length_on_platform)
    \/ C5_QualityUnrecognized
    \/ args.crb_listing.type # "str"
    \/ lower(args.crb_listing.str) \notin {s_neg, s_pos}
    \/ args.businesstype.type # "str"
    \/ upper(args.businesstype.str) \notin
         {S_INDIVIDUAL, S_SOLE_PROPRIETOR, S_UNREGISTERED, S_LIMITED_COMPANY,
          S_PARTNERSHIP}

\* C6: every invalid input makes the call raise the one validation error
\* (ValueError) and nothing else, a non-string crb_listing and a boolean in
\* a numeric field included.
C6_SingleErrorKind ==
    (pc # "ready" /\ C6_SomeFieldInvalid) =>
        /\ pc = "raised"
        /\ outcome.exc = "ValueError"

\* ---------------------------------------------------------------------- C7

\* the values that differ from v only in letter case (v itself included)
C7_CaseVariants(v, values) ==
    {w \in values :
        /\ w.type = v.type
        /\ w.num = v.num
        /\ lower(w.str) = lower(v.str)}

\* C7: a call whose numeric fields are those of this call and whose
\* business type, crb_cr_quality and crb_listing differ from this call's
\* only in letter case gives the same outcome: the same (decision,
\* credit_limit, reason), or the same validation error.
C7_CaseInsensitive ==
    pc # "ready" =>
        \A b \in C7_CaseVariants(args.businesstype, LooseBusiness),
           q \in C7_CaseVariants(args.crb_cr_quality, LooseQuality),
           l \in C7_CaseVariants(args.crb_listing, LooseListing) :
            set_credit_limit([args EXCEPT !.businesstype = b,
                                          !.crb_cr_quality = q,
                                          !.crb_listing = l]) = outcome

\* 'NEG' with 'individual' is declined as 'Neg' with 'INDIVIDUAL' is
C7_Witness ==
    /\ HasResult
    /\ args.crb_listing = PyStr(V_NEG)
    /\ args.businesstype = PyStr(V_individual)
    /\ args.crb_cr_quality = PyStr(V_LOW)
    /\ PyStr(O_Neg) \in C7_CaseVariants(args.crb_listing, LooseListing)
    /\ PyStr(S_INDIVIDUAL) \in C7_CaseVariants(args.businesstype, LooseBusiness)
    /\ outcome.decision = "Decline"
    /\ outcome.reason = ReasonNeg

\* ---------------------------------------------------------------------- C8

\* the profile cleared the gates and the tenure checks and its sized limit
\* computed to 0
C8_SizedToZero ==
    /\ HasResult /\ MatchesNoGate
    /\ ~Size(args).early
    /\ Size(args).credit_limit = 0

\* C8: a profile that clears all gates and tenure checks with a sized limit
\* of 0 is reported as Decline with limit 0 and the accept-but-zero reason
\* text, not the default reason.
C8_AcceptButZeroReason ==
    C8_SizedToZero =>
        /\ outcome.decision = "Decline"
        /\ outcome.credit_limit = 0
        /\ outcome.reason = ReasonAcceptZero

\* ---------------------------------------------------------------------- C9

\* the cap of the table row of each sizing leaf
C9_Cap ==
    [leaf \in SizingLeaves |->
        CASE leaf = "ind_low_3_5" -> 10000
          [] leaf = "ind_low_6" -> 15000
          [] leaf = "ind_mod_2_5" -> 20000
          [] leaf = "ind_mod_6_mid" -> 25000
          [] leaf = "ind_mod_6_high" -> 30000
          [] leaf = "bus_low_3_5" -> 50000
          [] leaf = "bus_low_6" -> 100000
          [] leaf = "bus_mod_2_5" -> 150000
          [] leaf = "bus_mod_6_mid" -> 200000
          [] leaf = "bus_mod_6_high" -> 350000]

\* C9: the returned credit_limit is 10 times the integer nearest to
\* sized_limit / 10, the even one on a tie (125 gives 120, 135 gives 140),
\* and never exceeds the cap of the row that produced it.
C9_RoundHalfEven ==
    (HasResult /\ outcome.leaf \in SizingLeaves) =>
        LET sized == Size(args).credit_limit
            limit == outcome.credit_limit
        IN  /\ limit % (10 * Fine) = 0
            /\ 2 * Abs(limit - sized) <= 10 * Fine
            /\ 2 * Abs(limit - sized) = 10 * Fine
                   => (limit \div (10 * Fine)) % 2 = 0
            /\ sized = 125 * Fine => limit = 120 * Fine
            /\ sized = 135 * Fine => limit = 140 * Fine
            /\ limit <= C9_Cap[outcome.leaf] * Fine

\* a sized limit of 125 is returned as 120
C9_Witness ==
    /\ HasResult /\ outcome.leaf \in SizingLeaves
    /\ Size(args).credit_limit = 125 * Fine
    /\ outcome.credit_limit = 120 * Fine

\* --------------------------------------------------------------------- C10

\* C10: the branch that forces the limit to 0 for Moderate/High/Highest
\* customers with 6 months or more and avg_sum_credits_per_month < 1000 is
\* never executed, in the IND arm or the BUS arm, and its reason is never
\* returned.
C10_ForcedZeroUnreachable ==
    /\ outcome.leaf \notin {"ind_forced_zero", "bus_forced_zero"}
    /\ outcome.reason # ReasonForcedZero

\* a Moderate customer of 6 months with a sum under 1000 and no other gate
\* matching is declined by gate 3
C10_Witness ==
    /\ HasResult
    /\ lower(args.crb_cr_quality.str) = s_moderate
    /\ args.length_on_platform.num >= 6 * Unit
    /\ args.avg_sum_credits_per_month.num < 1000 * Unit
    /\ ~MatchesGate1 /\ ~MatchesGate2
    /\ outcome.leaf = "gate_sum"
    /\ outcome.reason = ReasonSum

====
